---- MODULE Spec2Model ----
(***************************************************************************)
(* A model of service-worker.js (dial26): the install, activate, fetch and *)
(* message listeners of one service worker instance, the CacheStorage of   *)
(* its origin, and the network.  Every promise the listeners wait on is a  *)
(* step of its own, so that the interleavings the event loop allows are    *)
(* the behaviours of the model.                                            *)
(*                                                                         *)
(* Strings are atomic for TLC, so a pathname is kept as a string and its   *)
(* characters are given by the table Chars, which the regular expression   *)
(* of isImageRequest reads.                                                *)
(***************************************************************************)
EXTENDS Integers, Sequences, FiniteSets, TLC

(* ------------------------------ bounds -------------------------------- *)
\* stale Named Cache Stores that may exist before install
MaxStale == 1
\* manifest entries (the first ones of FailOrder) whose fetch may fail
MaxFailable == 2
\* fetch events dispatched to the instance
MaxFetch == 1
\* calls of self.skipWaiting() followed (install makes the first)
MaxSkipCalls == 2
\* install runs of the same script (same manifest, same Version Tag)
MaxInstalls == 2
\* fetch events that run side by side on the instance in service
MaxConcurrent == 2

(* ------------------------- program constants -------------------------- *)
CACHE_VERSION == "v2"
CACHE_NAME == "phone-keypad-" \o CACHE_VERSION

ASSETS_TO_CACHE ==
    << "/", "/index.html", "/styles.css", "/app.js", "/manifest.json",
       "/apple-touch-icon-180.png", "/icon-192.png", "/icon-512.png",
       "/favicon-32x32.png", "/numpad.png" >>

Manifest == { ASSETS_TO_CACHE[i] : i \in 1..Len(ASSETS_TO_CACHE) }

INDEX_HTML == "/index.html"
FALLBACK_ICON == "/apple-touch-icon-180.png"
IMAGE_EXTENSIONS ==
    { <<"p","n","g">>, <<"j","p","g">>, <<"j","p","e","g">>, <<"g","i","f">>,
      <<"w","e","b","p">>, <<"s","v","g">>, <<"i","c","o">> }

SelfOrigin == "https://app.example"
OtherOrigin == "https://cdn.example"

(* ----------------------------- pathnames ------------------------------ *)
\* The characters of the pathnames the model uses, from the last "/" on
\* (the regular expression only looks at the end of the pathname).
Chars(path) ==
    CASE path = "/" -> << "/" >>
      [] path = "/index.html" -> << "/","i","n","d","e","x",".","h","t","m","l" >>
      [] path = "/styles.css" -> << "/","s","t","y","l","e","s",".","c","s","s" >>
      [] path = "/app.js" -> << "/","a","p","p",".","j","s" >>
      [] path = "/manifest.json" -> << "/","m","a","n","i","f","e","s","t",".","j","s","o","n" >>
      [] path = "/apple-touch-icon-180.png" ->
            << "/","a","p","p","l","e","-","t","o","u","c","h","-","i","c","o","n",
               "-","1","8","0",".","p","n","g" >>
      [] path = "/icon-192.png" -> << "/","i","c","o","n","-","1","9","2",".","p","n","g" >>
      [] path = "/icon-512.png" -> << "/","i","c","o","n","-","5","1","2",".","p","n","g" >>
      [] path = "/favicon-32x32.png" ->
            << "/","f","a","v","i","c","o","n","-","3","2","x","3","2",".","p","n","g" >>
      [] path = "/numpad.png" -> << "/","n","u","m","p","a","d",".","p","n","g" >>
      [] path = "/logo.PNG" -> << "/","l","o","g","o",".","P","N","G" >>
      [] path = "/lib.js" -> << "/","l","i","b",".","j","s" >>
      [] path = "/avatar" -> << "/","a","v","a","t","a","r" >>
      [] path = "/about" -> << "/","a","b","o","u","t" >>
      [] OTHER -> << >>

\* the /i flag of the regular expression: letters compare in lower case
Lower(c) ==
    CASE c = "P" -> "p" [] c = "N" -> "n" [] c = "G" -> "g" [] c = "J" -> "j"
      [] c = "E" -> "e" [] c = "I" -> "i" [] c = "F" -> "f" [] c = "W" -> "w"
      [] c = "B" -> "b" [] c = "S" -> "s" [] c = "V" -> "v" [] c = "C" -> "c"
      [] c = "O" -> "o" [] OTHER -> c

\* the test of the regular expression without its /i flag
ExtensionTestCaseSensitive(cs) ==
    \E ext \in IMAGE_EXTENSIONS :
        /\ Len(cs) >= Len(ext) + 1
        /\ cs[Len(cs) - Len(ext)] = "."
        /\ \A i \in 1..Len(ext) : cs[Len(cs) - Len(ext) + i] = ext[i]

\* /\.(png|jpg|jpeg|gif|webp|svg|ico)$/i.test(pathname)
ExtensionTest(cs) ==
    \E ext \in IMAGE_EXTENSIONS :
        /\ Len(cs) >= Len(ext) + 1
        /\ cs[Len(cs) - Len(ext)] = "."
        /\ \A i \in 1..Len(ext) : Lower(cs[Len(cs) - Len(ext) + i]) = ext[i]

isImageRequest(request) ==
    IF request.destination = "image" THEN TRUE
    ELSE ExtensionTest(Chars(request.url.path))

(* ----------------------- requests and responses ----------------------- *)
Url(o, p) == [origin |-> o, path |-> p]

Undefined == [kind |-> "undefined"]

\* a response of the network: ver tells the fetches apart (0: fetched by
\* install, -1: stored before this instance existed, i > 0: fetch event i)
NetResponse(url, status, ver) ==
    [kind |-> "response", url |-> url, status |-> status, ver |-> ver,
     body |-> "content"]

\* new Response(null, { status: 503, statusText: 'Service Unavailable' })
ServiceUnavailable ==
    [kind |-> "response", url |-> Url("", ""), status |-> 503, ver |-> 0,
     body |-> "empty"]

\* the statuses a network fetch that resolves may carry
NetStatuses == { 200, 404 }

Req(method, mode, accept, destination, url) ==
    [method |-> method, mode |-> mode, accept |-> accept,
     destination |-> destination, url |-> url]

NoRequest == Req("", "", << >>, "", Url("", ""))

\* the requests the clients issue
Requests ==
    { Req("GET", "navigate", << "text/html", "application/xhtml+xml" >>, "document",
          Url(SelfOrigin, "/about")),
      Req("GET", "cors", << "text/html" >>, "", Url(OtherOrigin, "/about")),
      Req("GET", "no-cors", << "image/*" >>, "image", Url(SelfOrigin, "/avatar")),
      Req("GET", "cors", << "*/*" >>, "", Url(SelfOrigin, "/logo.PNG")),
      Req("GET", "no-cors", << "image/*" >>, "image", Url(SelfOrigin, "/icon-192.png")),
      Req("GET", "no-cors", << "*/*" >>, "script", Url(SelfOrigin, "/app.js")),
      Req("GET", "cors", << "*/*" >>, "script", Url(OtherOrigin, "/lib.js")),
      Req("POST", "navigate", << "text/html" >>, "document", Url(SelfOrigin, "/about")) }

\* (req.headers.get('accept') || '').includes('text/html')
AcceptsHtml(request) ==
    \E i \in DOMAIN request.accept : request.accept[i] = "text/html"

\* a fetch listener without the method guard
NotHandledNever(request) == FALSE

\* req.method !== 'GET'
NotHandled(request) == request.method # "GET"

\* req.mode === 'navigate' || accept includes 'text/html'
IsNavigation(request) == request.mode = "navigate" \/ AcceptsHtml(request)

\* reqUrl.origin === self.location.origin
SameOrigin(request) == request.url.origin = SelfOrigin

(* ---------------------------- CacheStorage ---------------------------- *)
\* caches: the Named Cache Stores of the origin in creation order, each a
\* record [name, entries], entries a function from request URLs to responses
EmptyEntries == [k \in {} |-> Undefined]

\* a put that keeps the entry a key already has
PutIfAbsent(entries, k, v) ==
    [x \in (DOMAIN entries) \cup {k} |-> IF x \in DOMAIN entries THEN entries[x] ELSE v]

\* cache.put: the entry of the key is replaced
Put(entries, k, v) ==
    [x \in (DOMAIN entries) \cup {k} |-> IF x = k THEN v ELSE entries[x]]

StoreNames(cs) == { cs[i].name : i \in DOMAIN cs }

StoreIndex(cs, n) == CHOOSE i \in DOMAIN cs : cs[i].name = n

StoreKeys(cs, n) ==
    IF n \in StoreNames(cs) THEN DOMAIN cs[StoreIndex(cs, n)].entries ELSE {}

\* caches.open(name): the store, created when absent
CachesOpen(cs, n) ==
    IF n \in StoreNames(cs) THEN cs
    ELSE Append(cs, [name |-> n, entries |-> EmptyEntries])

\* caches.delete(name)
CachesDelete(cs, n) == SelectSeq(cs, LAMBDA c : c.name # n)

\* cache.put(key, response) on the store named n
CachePut(cs, n, k, v) ==
    IF n \in StoreNames(cs)
    THEN [cs EXCEPT ![StoreIndex(cs, n)].entries = Put(@, k, v)]
    ELSE cs

\* caches.match(key): the entry of the first store, in creation order, that
\* holds the key; undefined when no store holds it
CachesMatch(cs, k) ==
    LET hits == { i \in DOMAIN cs : k \in DOMAIN cs[i].entries }
    IN  IF hits = {} THEN Undefined
        ELSE cs[CHOOSE i \in hits : \A j \in hits : i <= j].entries[k]

(* ------------------------------- state -------------------------------- *)
VARIABLES
    caches,            \* CacheStorage of the origin
    phase,             \* lifecycle state of the instance
    skipWaitingCalls,  \* calls of self.skipWaiting()
    installs,          \* install runs started
    installPc,         \* position of the install listener's work
    addState,          \* per manifest entry: state of its cache.add
    prevRun,           \* the current store when this install run started,
                       \* and addState as the run before left it
    actPc,             \* position of the activate listener's work
    del,               \* per stale store name: state of its caches.delete
    claimed,           \* self.clients.claim() has been called
    fe,                \* the fetch events
    log                \* console.warn lines

vars == << caches, phase, skipWaitingCalls, installs, installPc, addState,
           prevRun, actPc, del, claimed, fe, log >>

installVars == << installs, installPc, addState, prevRun >>
activateVars == << actPc, del, claimed >>

(* ------------------------------- Init --------------------------------- *)
\* names of stores of earlier generations, none of them the current name
StaleName(i) ==
    IF i = 1 THEN "phone-keypad-v1" ELSE "phone-keypad-old" \o ToString(i)

\* what an earlier generation left in a store: its root document and icon
OldShell ==
    LET keys == { Url(SelfOrigin, INDEX_HTML), Url(SelfOrigin, FALLBACK_ICON) }
    IN  [k \in keys |-> NetResponse(k, 200, -1)]

StaleStores(S) ==
    LET idx == SelectSeq([i \in 1..MaxStale |-> i], LAMBDA i : i \in S)
    IN  [j \in 1..Len(idx) |-> [name |-> StaleName(idx[j]), entries |-> OldShell]]

\* the manifest entries whose fetch may fail, the entries the fetch phase
\* falls back on first
FailOrder ==
    << "/apple-touch-icon-180.png", "/index.html", "/numpad.png", "/app.js",
       "/", "/styles.css", "/manifest.json", "/icon-192.png", "/icon-512.png",
       "/favicon-32x32.png" >>

Failable ==
    { FailOrder[i] : i \in { j \in 1..Len(FailOrder) : j <= MaxFailable } }

IdleFetch ==
    [pc |-> "idle", req |-> NoRequest, net |-> Undefined, resp |-> Undefined,
     responded |-> FALSE, fetched |-> FALSE, touched |-> FALSE,
     write |-> "none"]

\* what the current store holds, nothing when it does not exist
StoreEntries(cs, n) ==
    IF n \in StoreNames(cs) THEN cs[StoreIndex(cs, n)].entries ELSE EmptyEntries

Init ==
    /\ \E S \in SUBSET (1..MaxStale), cur \in BOOLEAN :
          caches = StaleStores(S) \o
                   (IF cur THEN << [name |-> CACHE_NAME, entries |-> OldShell] >>
                    ELSE << >>)
    /\ phase = "parsed"
    /\ skipWaitingCalls = 0
    /\ installs = 0
    /\ installPc = "idle"
    /\ addState = [a \in Manifest |-> "idle"]
    /\ prevRun = [entries |-> StoreEntries(caches, CACHE_NAME),
                  adds |-> [a \in Manifest |-> "idle"]]
    /\ actPc = "idle"
    /\ del = [k \in {} |-> "pending"]
    /\ claimed = FALSE
    /\ fe = [i \in 1..MaxFetch |-> IdleFetch]
    /\ log = {}

(* ------------------------------ install ------------------------------- *)
\* the install event: self.skipWaiting(), then caches.open(CACHE_NAME)
InstallStart ==
    /\ phase = "parsed"
    /\ phase' = "installing"
    /\ skipWaitingCalls' = skipWaitingCalls + 1
    /\ installs' = installs + 1
    /\ installPc' = "opening"
    /\ UNCHANGED << caches, addState, prevRun, activateVars, fe, log >>

\* caches.open(CACHE_NAME) resolves; cache.addAll(ASSETS_TO_CACHE) starts
InstallOpen ==
    /\ installPc = "opening"
    /\ caches' = CachesOpen(caches, CACHE_NAME)
    /\ installPc' = "addAll"
    /\ UNCHANGED << phase, skipWaitingCalls, installs, addState, prevRun,
                    activateVars, fe, log >>

\* caches.open(CACHE_NAME) rejects: nothing catches it, the promise given to
\* waitUntil rejects and the instance is discarded
InstallOpenFail ==
    /\ installPc = "opening"
    /\ installPc' = "failed"
    /\ phase' = "redundant"
    /\ UNCHANGED << caches, skipWaitingCalls, installs, addState, prevRun,
                    activateVars, fe, log >>

\* a bulk population that stores the entries whose fetch succeeded even when
\* another fetch failed
AddAllPartial(cs, failed) ==
    LET ok == Manifest \ failed
        idx == StoreIndex(cs, CACHE_NAME)
    IN  [cs EXCEPT ![idx].entries =
            [k \in (DOMAIN @) \cup { Url(SelfOrigin, a) : a \in ok } |->
                IF k.origin = SelfOrigin /\ k.path \in ok
                THEN NetResponse(k, 200, 0) ELSE @[k]]]

\* cache.addAll(ASSETS_TO_CACHE) when the fetches of `failed` fail: all of the
\* manifest is stored when none fails, nothing otherwise
AddAll(cs, failed) ==
    IF failed = {} THEN AddAllPartial(cs, {}) ELSE cs

\* the catch around cache.add in the fallback (lines 50-54)
AddFailurePropagates == FALSE

AddFailureCaught == TRUE

\* await cache.addAll(ASSETS_TO_CACHE) settles.  With no failed fetch the
\* store holds the manifest and install is over; otherwise the catch logs
\* and calls cache.add for every entry
InstallAddAll ==
    /\ installPc = "addAll"
    /\ \E failed \in SUBSET Failable :
          /\ caches' = AddAll(caches, failed)
          /\ IF failed = {}
             THEN /\ installPc' = "done"
                  /\ phase' = "installed"
                  /\ UNCHANGED << addState, log >>
             ELSE /\ installPc' = "fallback"
                  /\ addState' = [a \in Manifest |-> "pending"]
                  /\ log' = log \cup { << "addAll failed" >> }
                  /\ UNCHANGED phase
    /\ UNCHANGED << skipWaitingCalls, installs, prevRun, activateVars, fe >>

\* one cache.add(asset) of the fallback resolves: the entry is stored
InstallAddOk(a) ==
    /\ installPc = "fallback"
    /\ addState[a] = "pending"
    /\ caches' = CachePut(caches, CACHE_NAME, Url(SelfOrigin, a),
                          NetResponse(Url(SelfOrigin, a), 200, 0))
    /\ addState' = [addState EXCEPT ![a] = "stored"]
    /\ UNCHANGED << phase, skipWaitingCalls, installs, installPc, prevRun,
                    activateVars, fe, log >>

\* one cache.add(asset) of the fallback rejects: logged, not propagated
InstallAddFail(a) ==
    /\ installPc = "fallback"
    /\ addState[a] = "pending"
    /\ a \in Failable
    /\ addState' = [addState EXCEPT ![a] = "failed"]
    /\ IF AddFailureCaught
       THEN /\ log' = log \cup { << "failed to cache", a >> }
            /\ UNCHANGED << installPc, phase >>
       ELSE /\ installPc' = "failed"
            /\ phase' = "redundant"
            /\ UNCHANGED log
    /\ UNCHANGED << caches, skipWaitingCalls, installs, prevRun, activateVars,
                    fe >>

\* Promise.all over the fallback's adds resolves: install is over
InstallSettle ==
    /\ installPc = "fallback"
    /\ \A a \in Manifest : addState[a] \in { "stored", "failed" }
    /\ installPc' = "done"
    /\ phase' = "installed"
    /\ UNCHANGED << caches, skipWaitingCalls, installs, addState, prevRun,
                    activateVars, fe, log >>

\* the same script is installed again (a new registration or an update that
\* keeps the Version Tag): a fresh instance, the stores as they were left
Reinstall ==
    /\ phase = "installed"
    /\ installs < MaxInstalls
    /\ prevRun' = [entries |-> StoreEntries(caches, CACHE_NAME), adds |-> addState]
    /\ phase' = "parsed"
    /\ installPc' = "idle"
    /\ addState' = [a \in Manifest |-> "idle"]
    /\ UNCHANGED << caches, skipWaitingCalls, installs, activateVars, fe, log >>

(* ------------------------------ activate ------------------------------ *)
\* keys.filter(k => k !== CACHE_NAME) without the filter
StaleKeysAll(keys) == keys

\* keys.filter(k => k !== CACHE_NAME)
StaleKeys(keys) == { k \in keys : k # CACHE_NAME }

\* Promise.allSettled in the place of Promise.all: settled once no deletion
\* is pending, and never rejected
EvictionOutcomeSettled(d) ==
    IF \E k \in DOMAIN d : d[k] = "pending" THEN "pending" ELSE "resolved"

\* Promise.all over the deletions d: rejected as soon as one has rejected,
\* resolved once every one has resolved
EvictionOutcome(d) ==
    IF \E k \in DOMAIN d : d[k] = "failed" THEN "rejected"
    ELSE IF \A k \in DOMAIN d : d[k] = "deleted" THEN "resolved"
    ELSE "pending"

\* a claim that does not wait for the deletions
ClaimReadyAtOnce == TRUE

\* the then of Promise.all runs: every deletion has resolved
ClaimReady == EvictionOutcome(del) = "resolved"

\* the activate event: caches.keys() is called
ActivateStart ==
    /\ phase = "installed"
    /\ phase' = "activating"
    /\ actPc' = "keys"
    /\ UNCHANGED << caches, skipWaitingCalls, installVars, del, claimed, fe, log >>

\* caches.keys() resolves: caches.delete is called for every stale name
ActivateKeys ==
    /\ actPc = "keys"
    /\ del' = [k \in StaleKeys(StoreNames(caches)) |-> "pending"]
    /\ actPc' = "deleting"
    /\ UNCHANGED << caches, phase, skipWaitingCalls, installVars, claimed, fe, log >>

\* one caches.delete(k) resolves
DeleteOk(k) ==
    /\ k \in DOMAIN del
    /\ del[k] = "pending"
    /\ caches' = CachesDelete(caches, k)
    /\ del' = [del EXCEPT ![k] = "deleted"]
    /\ UNCHANGED << phase, skipWaitingCalls, installVars, actPc, claimed, fe, log >>

\* one caches.delete(k) rejects: Promise.all rejects at the first rejection,
\* the claim is skipped, the promise given to waitUntil rejects and the
\* instance becomes active all the same
DeleteFail(k) ==
    /\ k \in DOMAIN del
    /\ del[k] = "pending"
    /\ del' = [del EXCEPT ![k] = "failed"]
    /\ IF actPc = "deleting" /\ EvictionOutcome(del') = "rejected"
       THEN actPc' = "failed" /\ phase' = "activated"
       ELSE UNCHANGED << actPc, phase >>
    /\ UNCHANGED << caches, skipWaitingCalls, installVars, claimed, fe, log >>

\* .then(() => self.clients.claim())
ActivateClaim ==
    /\ actPc = "deleting"
    /\ ClaimReady
    /\ claimed' = TRUE
    /\ actPc' = "done"
    /\ phase' = "activated"
    /\ UNCHANGED << caches, skipWaitingCalls, installVars, del, fe, log >>

(* ------------------------------- fetch -------------------------------- *)
\* a navigation write that stores under the request, as the cache-first one
NavStoreKeyRequest(request) == request.url

\* cache.put('/index.html', copy): the key of the navigation write
NavStoreKey(request) == Url(SelfOrigin, INDEX_HTML)

\* the key of the cache-first write: cache.put(req, clone)
AssetStoreKey(request) == request.url

WriteKey(request) ==
    IF IsNavigation(request) THEN NavStoreKey(request) ELSE AssetStoreKey(request)

\* the store every write of the fetch phase opens: caches.open(CACHE_NAME)
\* with a store of its own for what the fetch phase caches
WriteStoreNameRuntime(request) == "phone-keypad-runtime"

\* caches.open(CACHE_NAME), lines 91 and 116
WriteStoreName(request) == CACHE_NAME

\* a navigation branch that returns the response when its write is over
NavAfterResponseAwaits == "nav_write"

\* return networkResponse (line 92): the write is not awaited
NavAfterResponse == "responded"

\* a cache-first branch that returns the response when its write is over
AssetAfterResponseAwaits == "cf_write"

\* return networkResponse (lines 110 and 125): the write is not awaited
AssetAfterResponse == "responded"

\* a cache-first branch that does not look in the cache
AssetLookupMiss(cs, request) == Undefined

\* caches.match(req), line 101
AssetLookup(cs, request) == CachesMatch(cs, request.url)

\* a 503 fallback that returns nothing
AssetFallbackNone(cs) == Undefined

\* a cache-first branch that stores whatever the network returned
AssetStoresAlways(request, response) == TRUE

\* lines 90-91: the navigation branch stores whatever the network returned
NavStores(request, response) == TRUE

\* lines 109 and 114: status 200 and same origin
AssetStores(request, response) ==
    response.status = 200 /\ SameOrigin(request)

\* a navigation fallback that answers 503 when nothing is cached
NavFallbackOr503(cs) ==
    IF CachesMatch(cs, Url(SelfOrigin, INDEX_HTML)) = Undefined
    THEN ServiceUnavailable
    ELSE CachesMatch(cs, Url(SelfOrigin, INDEX_HTML))

\* .catch(() => caches.match('/index.html'))
NavFallback(cs) == CachesMatch(cs, Url(SelfOrigin, INDEX_HTML))

\* caches.match('/apple-touch-icon-180.png')
IconFallback(cs) == CachesMatch(cs, Url(SelfOrigin, FALLBACK_ICON))

\* a generic fallback that substitutes the root document
AssetFallbackIndex(cs) ==
    IF CachesMatch(cs, Url(SelfOrigin, INDEX_HTML)) = Undefined
    THEN ServiceUnavailable
    ELSE CachesMatch(cs, Url(SelfOrigin, INDEX_HTML))

\* new Response(null, { status: 503, ... })
AssetFallback(cs) == ServiceUnavailable

\* the fetch event reaches the listener
FetchDispatch(i, request) ==
    /\ phase = "activated"
    /\ fe[i].pc = "idle"
    /\ fe' = [fe EXCEPT ![i] =
          IF NotHandled(request)
          THEN [@ EXCEPT !.pc = "passthrough", !.req = request]
          ELSE IF IsNavigation(request)
          THEN [@ EXCEPT !.pc = "nav_net", !.req = request, !.responded = TRUE,
                         !.fetched = TRUE]
          ELSE [@ EXCEPT !.pc = "cf_match", !.req = request, !.responded = TRUE,
                         !.touched = TRUE]]
    /\ UNCHANGED << caches, phase, skipWaitingCalls, installVars, activateVars, log >>

\* navigation: fetch(req) resolves; the copy's write is started and the live
\* response is returned
NavNetOk(i, status) ==
    /\ fe[i].pc = "nav_net"
    /\ LET r == NetResponse(fe[i].req.url, status, i)
       IN  fe' = [fe EXCEPT ![i] =
              [@ EXCEPT !.pc = NavAfterResponse, !.net = r, !.resp = r,
                        !.touched = NavStores(fe[i].req, r),
                        !.write = IF NavStores(fe[i].req, r) THEN "opening" ELSE "none"]]
    /\ UNCHANGED << caches, phase, skipWaitingCalls, installVars, activateVars, log >>

\* navigation: fetch(req) rejects; caches.match('/index.html') is called
NavNetFail(i) ==
    /\ fe[i].pc = "nav_net"
    /\ fe' = [fe EXCEPT ![i] = [@ EXCEPT !.pc = "nav_match", !.touched = TRUE]]
    /\ UNCHANGED << caches, phase, skipWaitingCalls, installVars, activateVars, log >>

\* navigation: the fallback match resolves
NavMatch(i) ==
    /\ fe[i].pc = "nav_match"
    /\ fe' = [fe EXCEPT ![i] = [@ EXCEPT !.pc = "responded", !.resp = NavFallback(caches)]]
    /\ UNCHANGED << caches, phase, skipWaitingCalls, installVars, activateVars, log >>

\* cache-first: caches.match(req) resolves; a hit is returned, a miss goes to
\* the network
AssetMatch(i) ==
    /\ fe[i].pc = "cf_match"
    /\ LET cached == AssetLookup(caches, fe[i].req)
       IN  fe' = [fe EXCEPT ![i] =
              IF cached # Undefined
              THEN [@ EXCEPT !.pc = "responded", !.resp = cached]
              ELSE [@ EXCEPT !.pc = "cf_net", !.fetched = TRUE]]
    /\ UNCHANGED << caches, phase, skipWaitingCalls, installVars, activateVars, log >>

\* cache-first: fetch(req) resolves; the live response is returned, and a
\* clone's write is started when the response is to be stored
AssetNetOk(i, status) ==
    /\ fe[i].pc = "cf_net"
    /\ LET r == NetResponse(fe[i].req.url, status, i)
       IN  fe' = [fe EXCEPT ![i] =
              [@ EXCEPT !.pc = AssetAfterResponse, !.net = r, !.resp = r,
                        !.write = IF AssetStores(fe[i].req, r) THEN "opening" ELSE "none"]]
    /\ UNCHANGED << caches, phase, skipWaitingCalls, installVars, activateVars, log >>

\* cache-first: fetch(req) rejects; an image request goes for the fallback
\* icon, any other request gets the 503
AssetNetFail(i) ==
    /\ fe[i].pc = "cf_net"
    /\ fe' = [fe EXCEPT ![i] =
          IF isImageRequest(fe[i].req)
          THEN [@ EXCEPT !.pc = "cf_icon"]
          ELSE [@ EXCEPT !.pc = "responded", !.resp = AssetFallback(caches)]]
    /\ UNCHANGED << caches, phase, skipWaitingCalls, installVars, activateVars, log >>

\* cache-first: the match of the fallback icon resolves
IconMatch(i) ==
    /\ fe[i].pc = "cf_icon"
    /\ fe' = [fe EXCEPT ![i] = [@ EXCEPT !.pc = "responded", !.resp = IconFallback(caches)]]
    /\ UNCHANGED << caches, phase, skipWaitingCalls, installVars, activateVars, log >>

\* the write's caches.open(CACHE_NAME) resolves and cache.put is called.  The
\* call returns a promise and reports a failure by rejecting it, so the
\* try/catch of lines 117-122 around the call sees no exception
WriteOpen(i) ==
    /\ fe[i].write = "opening"
    /\ caches' = CachesOpen(caches, WriteStoreName(fe[i].req))
    /\ fe' = [fe EXCEPT ![i] = [@ EXCEPT !.write = "putting"]]
    /\ UNCHANGED << phase, skipWaitingCalls, installVars, activateVars, log >>

\* the write's caches.open(CACHE_NAME) rejects: no handler in either branch
WriteOpenFail(i) ==
    /\ fe[i].write = "opening"
    /\ fe' = [fe EXCEPT ![i] = [@ EXCEPT !.write = "rejected"]]
    /\ UNCHANGED << caches, phase, skipWaitingCalls, installVars, activateVars, log >>

\* the promise of cache.put resolves: the entry is stored
WritePut(i) ==
    /\ fe[i].write = "putting"
    /\ caches' = CachePut(caches, WriteStoreName(fe[i].req), WriteKey(fe[i].req),
                          fe[i].net)
    /\ fe' = [fe EXCEPT ![i] = [@ EXCEPT !.write = "stored"]]
    /\ UNCHANGED << phase, skipWaitingCalls, installVars, activateVars, log >>

\* the promise of cache.put rejects: no handler in either branch
WritePutFail(i) ==
    /\ fe[i].write = "putting"
    /\ fe' = [fe EXCEPT ![i] = [@ EXCEPT !.write = "rejected"]]
    /\ UNCHANGED << caches, phase, skipWaitingCalls, installVars, activateVars, log >>

(* ------------------------------ message ------------------------------- *)
NoData == [kind |-> "undefined"]

MessageData ==
    { NoData, [type |-> "SKIP_WAITING"], [type |-> "PING"], [command |-> "SKIP_WAITING"] }

\* a listener that takes any payload for the command
SkipsWaitingAnyPayload(data) == data # NoData

\* if (!event.data) return; if (event.data.type === 'SKIP_WAITING') ...
SkipsWaiting(data) ==
    /\ data # NoData
    /\ "type" \in DOMAIN data
    /\ data.type = "SKIP_WAITING"

\* the message event: a message that is not the command changes nothing
Message(data) ==
    /\ phase \in { "installing", "installed", "activating", "activated" }
    /\ skipWaitingCalls < MaxSkipCalls
    /\ skipWaitingCalls' = IF SkipsWaiting(data) THEN skipWaitingCalls + 1
                           ELSE skipWaitingCalls
    /\ UNCHANGED << caches, phase, installVars, activateVars, fe, log >>

(* --------------------------- specifications --------------------------- *)
InstallNext ==
    \/ InstallStart
    \/ InstallOpen
    \/ InstallOpenFail
    \/ InstallAddAll
    \/ \E a \in Manifest : InstallAddOk(a)
    \/ \E a \in Manifest : InstallAddFail(a)
    \/ InstallSettle

ActivateNext ==
    \/ ActivateStart
    \/ ActivateKeys
    \/ \E k \in DOMAIN del : DeleteOk(k)
    \/ \E k \in DOMAIN del : DeleteFail(k)
    \/ ActivateClaim

\* the steps of the fetch events under way
FetchSteps ==
    \/ \E i \in DOMAIN fe, status \in NetStatuses : NavNetOk(i, status)
    \/ \E i \in DOMAIN fe : NavNetFail(i)
    \/ \E i \in DOMAIN fe : NavMatch(i)
    \/ \E i \in DOMAIN fe : AssetMatch(i)
    \/ \E i \in DOMAIN fe, status \in NetStatuses : AssetNetOk(i, status)
    \/ \E i \in DOMAIN fe : AssetNetFail(i)
    \/ \E i \in DOMAIN fe : IconMatch(i)
    \/ \E i \in DOMAIN fe : WriteOpen(i)
    \/ \E i \in DOMAIN fe : WriteOpenFail(i)
    \/ \E i \in DOMAIN fe : WritePut(i)
    \/ \E i \in DOMAIN fe : WritePutFail(i)

FetchNext ==
    \/ \E i \in DOMAIN fe, request \in Requests : FetchDispatch(i, request)
    \/ FetchSteps

MessageNext == \E data \in MessageData : Message(data)

\* one instance from its install on
Next == InstallNext \/ ActivateNext \/ FetchNext \/ MessageNext

Spec == Init /\ [][Next]_vars

\* the instance from its install on with the messages of its clients, no
\* fetch event dispatched
NextLifecycle == InstallNext \/ ActivateNext \/ MessageNext

SpecLifecycle == Init /\ [][NextLifecycle]_vars

\* the script installed time and again over the stores it left
NextInstall == InstallNext \/ Reinstall

SpecInstall == Init /\ [][NextInstall]_vars

\* the instance in service: on an origin with no earlier store the install
\* ran once, storing every manifest entry but the ones in missing (whose
\* fetch failed), the activation found nothing to delete and claimed the
\* clients; the fetch events are the ones in slots, none under way
Serving(slots, missing) ==
    /\ caches = << [name |-> CACHE_NAME,
                    entries |-> [k \in { Url(SelfOrigin, a) : a \in Manifest \ missing }
                                    |-> NetResponse(k, 200, 0)]] >>
    /\ phase = "activated"
    /\ skipWaitingCalls = 1
    /\ installs = 1
    /\ installPc = "done"
    /\ addState = [a \in Manifest |->
                      IF missing = {} THEN "idle"
                      ELSE IF a \in missing THEN "failed" ELSE "stored"]
    /\ prevRun = [entries |-> EmptyEntries, adds |-> [a \in Manifest |-> "idle"]]
    /\ actPc = "done"
    /\ del = [k \in {} |-> "pending"]
    /\ claimed = TRUE
    /\ fe = [i \in slots |-> IdleFetch]
    /\ log = IF missing = {} THEN {}
             ELSE { << "addAll failed" >> } \cup { << "failed to cache", a >> : a \in missing }

\* the requests of the fetch events that run side by side: a navigation, an
\* image and a script, none of them in the manifest
RaceRequests ==
    { r \in Requests : r.method = "GET" /\ r.url.path \in { "/about", "/logo.PNG", "/lib.js" }
                                        /\ (r.url.path = "/lib.js" \/ r.url.origin = SelfOrigin) }

InitRace == \E missing \in SUBSET Failable : Serving(1..MaxConcurrent, missing)

NextRace ==
    \/ \E i \in DOMAIN fe, request \in RaceRequests : FetchDispatch(i, request)
    \/ FetchSteps

\* fetch events side by side on the instance in service
SpecRace == InitRace /\ [][NextRace]_vars

InitServing == \E missing \in SUBSET Failable : Serving(1..MaxFetch, missing)

\* the promises a response waits for: fetch(req) and caches.match settle
Settle(i) ==
    \/ \E status \in NetStatuses : NavNetOk(i, status)
    \/ NavNetFail(i)
    \/ NavMatch(i)
    \/ AssetMatch(i)
    \/ \E status \in NetStatuses : AssetNetOk(i, status)
    \/ AssetNetFail(i)
    \/ IconMatch(i)

\* every promise a response waits for settles in the end; nothing is
\* assumed of the writes, which no response waits for
SettleFairness == \A i \in 1..MaxFetch : WF_vars(Settle(i))

\* the fetch phase of the instance in service, its promises settling
SpecServing == InitServing /\ [][FetchNext]_vars /\ SettleFairness


(* ------------------------ vocabulary of the claims -------------------- *)
IndexKey == Url(SelfOrigin, INDEX_HTML)
IconKey == Url(SelfOrigin, FALLBACK_ICON)

\* the entries any store holds under key k
EntriesUnder(cs, k) ==
    { cs[j].entries[k] : j \in { x \in DOMAIN cs : k \in DOMAIN cs[x].entries } }

\* the request classes as the specification words them
ClaimNavigation(r) ==
    r.mode = "navigate" \/ "text/html" \in { r.accept[j] : j \in DOMAIN r.accept }

ImagePaths ==
    { "/apple-touch-icon-180.png", "/icon-192.png", "/icon-512.png",
      "/favicon-32x32.png", "/numpad.png", "/logo.PNG" }

ClaimImage(r) == r.destination = "image" \/ r.url.path \in ImagePaths

NavGet(i) == fe[i].req.method = "GET" /\ ClaimNavigation(fe[i].req)
ImageGet(i) ==
    fe[i].req.method = "GET" /\ ~ClaimNavigation(fe[i].req) /\ ClaimImage(fe[i].req)
GenericGet(i) ==
    fe[i].req.method = "GET" /\ ~ClaimNavigation(fe[i].req) /\ ~ClaimImage(fe[i].req)

\* the handler's fetch(req) has resolved / has rejected
NetOk(i) == fe[i].net # Undefined
NetFailed(i) ==
    fe[i].fetched /\ fe[i].net = Undefined /\ fe[i].pc \notin { "nav_net", "cf_net" }

\* the fallback of the install run was taken (cache.addAll rejected)
BulkFailed == \E a \in Manifest : addState[a] # "idle"

StoredByFallback == { Url(SelfOrigin, a) : a \in { b \in Manifest : addState[b] = "stored" } }

(* ------------------------------- claims ------------------------------- *)
\* C1: once activate has ended with every deletion resolved, exactly one
\* Named Cache Store exists, the one named for the current Version Tag,
\* whatever stores existed before install.
C1_OnlyCurrentStoreAfterActivate ==
    actPc = "done" => StoreNames(caches) = { CACHE_NAME }

C1_Witness ==
    /\ actPc = "done"
    /\ DOMAIN del # {}
    /\ StoreNames(caches) = { CACHE_NAME }

\* C2: clients.claim() has been called only when the deletion of every stale
\* store listed at the start of activate has resolved; none is pending (or
\* failed), and none of those stores exists any more.
C2_ClaimAfterEviction ==
    claimed => \A k \in DOMAIN del : del[k] = "deleted" /\ k \notin StoreNames(caches)

C2_Witness ==
    /\ claimed
    /\ \E k \in DOMAIN del : del[k] = "deleted"

\* C3 as stated: a navigation GET whose network fetch succeeded is answered
\* with the network response, and once its write is no longer in flight the
\* root document entry has been updated by it.
C3_Original ==
    \A i \in 1..MaxFetch :
        (NavGet(i) /\ NetOk(i) /\ fe[i].write \notin { "opening", "putting" })
            => /\ fe[i].resp = fe[i].net
               /\ fe[i].write = "stored"

\* C3 as amended: a navigation GET whose network fetch succeeded is answered
\* with the network response and a write of a copy is started; the step in
\* which that write succeeds makes the copy the '/index.html' entry of the
\* current store, whatever was there; a step in which it fails leaves that
\* entry as it was.
C3_NavigationRefresh ==
    /\ [](\A i \in 1..MaxFetch :
            (NavGet(i) /\ NetOk(i))
                => /\ fe[i].pc = "responded"
                   /\ fe[i].resp = fe[i].net
                   /\ fe[i].write # "none")
    /\ [][\A i \in 1..MaxFetch :
            /\ (NavGet(i) /\ fe[i].write = "putting" /\ fe'[i].write = "stored")
                  => /\ IndexKey \in StoreKeys(caches', CACHE_NAME)
                     /\ StoreEntries(caches', CACHE_NAME)[IndexKey] = fe[i].net
            /\ (NavGet(i) /\ fe[i].write \in { "opening", "putting" }
                          /\ fe'[i].write = "rejected")
                  => EntriesUnder(caches', IndexKey) = EntriesUnder(caches, IndexKey)
         ]_vars

C3_Witness ==
    \E i \in 1..MaxFetch :
        /\ NavGet(i) /\ NetOk(i)
        /\ fe[i].write = "stored"
        /\ fe[i].resp = fe[i].net
        /\ IndexKey \in StoreKeys(caches, CACHE_NAME)
        /\ StoreEntries(caches, CACHE_NAME)[IndexKey] = fe[i].net

\* C4: the step that answers a navigation GET whose network fetch failed
\* answers with a cached '/index.html' entry when a store holds one and with
\* no response when none does; the answer is never the 503 nor the icon.
C4_NavigationOffline ==
    [][\A i \in 1..MaxFetch :
          (NavGet(i) /\ NetFailed(i) /\ fe[i].pc # "responded" /\ fe'[i].pc = "responded")
              => /\ IF EntriesUnder(caches, IndexKey) = {}
                    THEN fe'[i].resp = Undefined
                    ELSE fe'[i].resp \in EntriesUnder(caches, IndexKey)
                 /\ fe'[i].resp # ServiceUnavailable
                 /\ fe'[i].resp \notin EntriesUnder(caches, IconKey)
      ]_vars

C4_Witness ==
    \E i \in 1..MaxFetch :
        /\ NavGet(i) /\ NetFailed(i)
        /\ fe[i].pc = "responded"
        /\ fe[i].resp \in EntriesUnder(caches, IndexKey)

\* C5: a generic-asset GET (neither navigation nor image) that missed the
\* cache and whose network fetch failed is answered with status 503 and an
\* empty body, never with the cached root document.
C5_GenericOffline ==
    \A i \in 1..MaxFetch :
        (GenericGet(i) /\ NetFailed(i))
            => /\ fe[i].pc = "responded"
               /\ fe[i].resp # Undefined
               /\ fe[i].resp.status = 503
               /\ fe[i].resp.body = "empty"
               /\ fe[i].resp \notin EntriesUnder(caches, IndexKey)

C5_Witness ==
    \E i \in 1..MaxFetch :
        /\ GenericGet(i) /\ NetFailed(i)
        /\ fe[i].resp = ServiceUnavailable
        /\ EntriesUnder(caches, IndexKey) # {}

C7_NonGetUntouched ==
    /\ [](\A i \in 1..MaxFetch :
            (fe[i].pc # "idle" /\ fe[i].req.method # "GET")
                => /\ fe[i].pc = "passthrough"
                   /\ ~fe[i].responded /\ ~fe[i].fetched /\ ~fe[i].touched
                   /\ fe[i].write = "none"
                   /\ fe[i].resp = Undefined /\ fe[i].net = Undefined)
    /\ [][\A i \in 1..MaxFetch :
            (fe[i].pc = "idle" /\ fe'[i].pc # "idle" /\ fe'[i].req.method # "GET")
                => caches' = caches
         ]_vars

C7_Witness ==
    \E i \in 1..MaxFetch :
        /\ fe[i].req.method = "POST"
        /\ fe[i].pc = "passthrough"

\* C8 as stated: when an install whose bulk population failed completes, the
\* current store holds exactly the manifest entries whose individual fetch
\* did not fail, and install did not fail.
C8_Original ==
    (BulkFailed /\ installPc \in { "done", "failed" } /\ phase \in { "installed", "redundant" })
        => /\ installPc = "done"
           /\ StoreKeys(caches, CACHE_NAME) = StoredByFallback

\* C8 as amended: a bulk population that fails stores nothing, the fallback
\* stores every entry whose individual fetch succeeds and install does not
\* fail: from the fallback's start to the end of install the current store
\* holds the keys it held before install plus the entries stored so far (so
\* exactly the entries that did not fail when it was empty before).
C8_FallbackSalvages ==
    BulkFailed
        => /\ installPc \in { "fallback", "done" }
           /\ phase # "redundant"
           /\ phase \in { "installing", "installed" }
                 => StoreKeys(caches, CACHE_NAME) =
                        (DOMAIN prevRun.entries) \cup StoredByFallback

C8_Witness ==
    /\ installPc = "done"
    /\ phase = "installed"
    /\ \E a \in Manifest :
          addState[a] = "failed" /\ Url(SelfOrigin, a) \notin StoreKeys(caches, CACHE_NAME)
    /\ Cardinality(StoreKeys(caches, CACHE_NAME)) = Len(ASSETS_TO_CACHE) - 1

\* C9: a second install run with the same manifest, Version Tag and outcome
\* for each entry leaves the current store as the first run left it, and the
\* population of the second run raises no error.
C9_InstallIdempotent ==
    installs >= 2
        => /\ (installPc = "done" /\ prevRun.adds = addState)
                 => StoreEntries(caches, CACHE_NAME) = prevRun.entries
           /\ installPc = "failed" => ~BulkFailed

C9_Witness ==
    /\ installs >= 2
    /\ installPc = "done"
    /\ prevRun.adds = addState
    /\ \E a \in Manifest : addState[a] = "failed"
    /\ StoreEntries(caches, CACHE_NAME) = prevRun.entries

\* C10 as stated: every entry the fetch phase wrote (ver > 0) holds a
\* response with status 200 for a same-origin request, in all three request
\* classes.
C10_Original ==
    \A j \in DOMAIN caches :
        \A k \in DOMAIN caches[j].entries :
            caches[j].entries[k].ver > 0
                => /\ caches[j].entries[k].status = 200
                   /\ caches[j].entries[k].url.origin = SelfOrigin

\* C11: a non-navigation GET (image or generic) that missed the cache and
\* whose network fetch succeeded is answered with the network response,
\* always; a write of a copy is started exactly when the response has status
\* 200 and the request is same-origin, and the step in which that write
\* succeeds stores the response under the request's own key in the current
\* store and touches no other key; a non-200 or cross-origin response starts
\* no write.
C11_CacheFirstStore ==
    /\ [](\A i \in 1..MaxFetch :
            ((ImageGet(i) \/ GenericGet(i)) /\ NetOk(i))
                => /\ fe[i].pc = "responded"
                   /\ fe[i].resp = fe[i].net
                   /\ (fe[i].write # "none")
                         <=> (fe[i].net.status = 200
                                /\ fe[i].req.url.origin = SelfOrigin))
    /\ [][\A i \in 1..MaxFetch :
            ((ImageGet(i) \/ GenericGet(i))
                    /\ fe[i].write = "putting" /\ fe'[i].write = "stored")
                => /\ StoreKeys(caches', CACHE_NAME)
                          = StoreKeys(caches, CACHE_NAME) \cup { fe[i].req.url }
                   /\ StoreEntries(caches', CACHE_NAME)[fe[i].req.url] = fe[i].net
                   /\ \A k \in StoreKeys(caches, CACHE_NAME) \ { fe[i].req.url } :
                          StoreEntries(caches', CACHE_NAME)[k]
                              = StoreEntries(caches, CACHE_NAME)[k]
         ]_vars

\* a same-origin 200 that missed the cache was returned and stored under the
\* request's key
C11_Witness ==
    \E i \in 1..MaxFetch :
        /\ (ImageGet(i) \/ GenericGet(i)) /\ NetOk(i)
        /\ fe[i].resp = fe[i].net
        /\ fe[i].net.status = 200 /\ fe[i].req.url.origin = SelfOrigin
        /\ fe[i].write = "stored"
        /\ StoreEntries(caches, CACHE_NAME)[fe[i].req.url] = fe[i].net

\* C12 as stated: whenever a write of the fetch phase has failed (opening the
\* store or the put rejected), in the navigation and in the cache-first path,
\* the live response has been delivered and the failure was caught and
\* logged as a warning.
C12_Original ==
    \A i \in 1..MaxFetch :
        fe[i].write = "rejected"
            => /\ fe[i].pc = "responded"
               /\ fe[i].resp = fe[i].net
               /\ \E l \in log : l[1] = "Cache put failed"

\* C13 as stated: a GET whose network fetch by the handler failed is answered
\* with a defined response, except an image request when no store holds the
\* fallback icon (a request whose method is not GET is the other exception:
\* the handler fetches nothing for it).
C13_Original ==
    \A i \in 1..MaxFetch :
        (fe[i].req.method = "GET" /\ NetFailed(i) /\ fe[i].pc = "responded")
            => \/ fe[i].resp # Undefined
               \/ ImageGet(i) /\ EntriesUnder(caches, IconKey) = {}

\* C13 as amended: the step that answers a GET whose network fetch by the
\* handler failed gives no response in exactly two cases, a navigation
\* request when no store holds '/index.html' and an image request when no
\* store holds the fallback icon; in every other case the answer is a defined
\* response.
C13_OfflineDefined ==
    [][\A i \in 1..MaxFetch :
          (/\ fe[i].req.method = "GET"
           /\ fe[i].pc # "responded" /\ fe'[i].pc = "responded"
           /\ fe'[i].fetched /\ fe'[i].net = Undefined)
              => (fe'[i].resp = Undefined
                    <=> \/ NavGet(i) /\ EntriesUnder(caches, IndexKey) = {}
                        \/ ImageGet(i) /\ EntriesUnder(caches, IconKey) = {})
      ]_vars

\* the case the statement leaves out: a navigation whose fetch failed with no
\* root document cached has been answered with no response
C13_Witness ==
    \E i \in 1..MaxFetch :
        /\ NavGet(i) /\ NetFailed(i)
        /\ fe[i].pc = "responded"
        /\ fe[i].resp = Undefined
        /\ EntriesUnder(caches, IndexKey) = {}

\* the payloads the statement takes for the skip-waiting command
ClaimSkipCommand(d) == d # NoData /\ "type" \in DOMAIN d /\ d.type = "SKIP_WAITING"

\* C14: a message event calls skipWaiting if and only if it carries a payload
\* whose type is SKIP_WAITING; a message with no payload or with any other
\* payload changes nothing at all; and no message event changes any store or
\* any other part of the state.
C14_MessageFrame ==
    [][\A d \in MessageData :
          Message(d)
              => /\ skipWaitingCalls' =
                        IF ClaimSkipCommand(d) THEN skipWaitingCalls + 1
                                               ELSE skipWaitingCalls
                 /\ caches' = caches
                 /\ UNCHANGED << phase, installVars, activateVars, fe, log >>
      ]_vars

\* the command was handled by the listener (the install called skipWaiting
\* once), and the stores are the ones the activation left
C14_Witness ==
    /\ skipWaitingCalls = 2
    /\ phase = "activated"
    /\ StoreNames(caches) = { CACHE_NAME }

\* C15: once the deletion of a stale store has failed during activate, the
\* failure has propagated: the activate work has ended in failure and this
\* activation has not claimed the clients, and it never does afterwards,
\* whatever the other deletions do.
C15_DeleteFailurePropagates ==
    (\E k \in DOMAIN del : del[k] = "failed")
        => /\ actPc = "failed"
           /\ ~claimed

\* a deletion failed, every other deletion has settled, and the activation
\* is over without a claim
C15_Witness ==
    /\ \E k \in DOMAIN del : del[k] = "failed"
    /\ \A k \in DOMAIN del : del[k] # "pending"
    /\ actPc = "failed"
    /\ phase = "activated"
    /\ ~claimed

\* C16: in the navigation path the write of the refreshed root document is
\* never under way before the network response has been received, and the
\* response is returned without waiting for that write: from the moment the
\* response is received the caller holds it, whatever the state of the write.
C16_WriteAfterResponseNotAwaited ==
    /\ [](\A i \in 1..MaxFetch :
            NavGet(i)
                => /\ (fe[i].write # "none" => NetOk(i))
                   /\ (NetOk(i) => fe[i].pc = "responded" /\ fe[i].resp = fe[i].net))
    /\ [][\A i \in 1..MaxFetch :
            (NavGet(i) /\ fe[i].write = "none" /\ fe'[i].write # "none")
                => /\ fe[i].net = Undefined /\ fe'[i].net # Undefined
                   /\ fe'[i].write = "opening"
                   /\ fe'[i].pc = "responded"
         ]_vars

\* the caller holds the response while the write is still pending
C16_Witness ==
    \E i \in 1..MaxFetch :
        /\ NavGet(i) /\ NetOk(i)
        /\ fe[i].pc = "responded"
        /\ fe[i].resp = fe[i].net
        /\ fe[i].write = "putting"
        /\ fe[i].net \notin EntriesUnder(caches, IndexKey)

\* the key a fetch event's write goes to, as the specification words it
ClaimKey(i) == IF NavGet(i) THEN IndexKey ELSE fe[i].req.url

\* the response of event i is to be stored
ClaimStorable(i) ==
    NavGet(i) \/ (fe[i].net.status = 200 /\ fe[i].req.url.origin = SelfOrigin)

\* C17: fetch events that run side by side are not deduplicated.  Each event
\* that goes to the network gets a response of its own (the response of the
\* request it issued) and, when the response is to be stored, starts a write
\* of its own, whatever the other events do.  Every write that completes
\* makes the writer's whole response the entry of the key, over what an
\* earlier write left, so the entry is the response of the write that
\* completed last: an entry is never anything but the whole response of a
\* completed write (or what the install stored), no step but a completing
\* write changes a store, and a key once stored is never lost.
C17_LastWriteWins ==
    /\ [](\A i \in DOMAIN fe :
            NetOk(i)
                => /\ fe[i].net.ver = i
                   /\ fe[i].resp = fe[i].net
                   /\ ClaimStorable(i) => fe[i].write # "none")
    /\ [](\A k \in StoreKeys(caches, CACHE_NAME) :
            \/ StoreEntries(caches, CACHE_NAME)[k].ver = 0
            \/ \E i \in DOMAIN fe :
                  /\ fe[i].write = "stored" /\ ClaimKey(i) = k
                  /\ StoreEntries(caches, CACHE_NAME)[k] = fe[i].net)
    /\ [][/\ \A i \in DOMAIN fe :
               (fe[i].write = "putting" /\ fe'[i].write = "stored")
                   => /\ ClaimKey(i) \in StoreKeys(caches', CACHE_NAME)
                      /\ StoreEntries(caches', CACHE_NAME)[ClaimKey(i)] = fe[i].net
          /\ StoreKeys(caches, CACHE_NAME) \subseteq StoreKeys(caches', CACHE_NAME)
          /\ (\A i \in DOMAIN fe : ~(fe[i].write = "putting" /\ fe'[i].write = "stored"))
                => StoreEntries(caches', CACHE_NAME) = StoreEntries(caches, CACHE_NAME)
         ]_vars

\* two events for the same resource, which no store held, each got a
\* response of its own and completed a write of its own; the entry is the
\* response of one of them and not of the other
C17_Witness ==
    \E i, j \in DOMAIN fe :
        /\ i # j
        /\ fe[i].req = fe[j].req
        /\ GenericGet(i) \/ ImageGet(i)
        /\ NetOk(i) /\ NetOk(j)
        /\ fe[i].net # fe[j].net
        /\ fe[i].write = "stored" /\ fe[j].write = "stored"
        /\ StoreEntries(caches, CACHE_NAME)[ClaimKey(i)] = fe[i].net

\* the positions of a fetch event whose respondWith promise is pending
InFlight == { "nav_net", "nav_match", "cf_match", "cf_net", "cf_icon" }

\* C18: when every network fetch and every cache lookup settles in the end,
\* every GET the handler took reaches an outcome in the end, and nothing is
\* assumed of the writes for that: they may stay pending forever.  A request
\* waiting for its network fetch has no outcome, and only the settling of
\* that fetch takes it further.
C18_EveryGetReachesOutcome ==
    /\ \A i \in 1..MaxFetch :
          (fe[i].pc \in InFlight) ~> (fe[i].pc = "responded")
    /\ [](\A i \in 1..MaxFetch :
            fe[i].pc \in InFlight => fe[i].req.method = "GET" /\ fe[i].resp = Undefined)
    /\ [][\A i \in 1..MaxFetch :
            (fe[i].pc \in { "nav_net", "cf_net" } /\ fe'[i].pc # fe[i].pc)
                => \/ fe'[i].net # Undefined /\ fe'[i].pc = "responded"
                   \/ fe'[i].net = Undefined
                        /\ fe'[i].pc \in { "nav_match", "cf_icon", "responded" }
         ]_vars

\* an image or generic GET has its outcome, the live response, while the
\* write of the copy has not begun
C18_Witness ==
    \E i \in 1..MaxFetch :
        /\ ImageGet(i) \/ GenericGet(i)
        /\ fe[i].pc = "responded"
        /\ fe[i].resp = fe[i].net /\ NetOk(i)
        /\ fe[i].write = "opening"

\* C19: a non-navigation GET whose key a store holds when its lookup resolves
\* is answered by that step with the cached entry; the event issues no
\* network fetch and starts no write, and no step of the event changes a
\* store.
C19_CacheHitFrame ==
    /\ [][\A i \in 1..MaxFetch :
            ((ImageGet(i) \/ GenericGet(i)) /\ fe[i].pc = "cf_match"
                    /\ fe'[i].pc # "cf_match"
                    /\ EntriesUnder(caches, fe[i].req.url) # {})
                => /\ fe'[i].pc = "responded"
                   /\ fe'[i].resp \in EntriesUnder(caches, fe[i].req.url)
                   /\ ~fe'[i].fetched
                   /\ fe'[i].net = Undefined
                   /\ fe'[i].write = "none"
                   /\ caches' = caches
         ]_vars
    /\ [](\A i \in 1..MaxFetch :
            ((ImageGet(i) \/ GenericGet(i)) /\ fe[i].pc = "responded" /\ ~fe[i].fetched)
                => /\ fe[i].resp # Undefined
                   /\ fe[i].resp.url = fe[i].req.url
                   /\ fe[i].net = Undefined
                   /\ fe[i].write = "none")

\* a cached script was served from the store, with no fetch and no write
C19_Witness ==
    \E i \in 1..MaxFetch :
        /\ GenericGet(i)
        /\ fe[i].pc = "responded"
        /\ ~fe[i].fetched
        /\ fe[i].resp \in EntriesUnder(caches, fe[i].req.url)
        /\ fe[i].net = Undefined
        /\ fe[i].write = "none"

\* C20: no step of the instance creates a store, or writes into a store,
\* other than the store named for the current Version Tag: a store of
\* another name exists after a step only if it existed before, with the same
\* entries.  Hence, from the moment the activation has completed with every
\* deletion successful, every step (of a fetch event, of a message event,
\* of a write still under way) leaves the current store's name as the only
\* store name.
C20_WritesOnlyCurrentStore ==
    [][/\ \A n \in StoreNames(caches') \ { CACHE_NAME } :
             /\ n \in StoreNames(caches)
             /\ StoreEntries(caches', n) = StoreEntries(caches, n)
       /\ actPc = "done" => StoreNames(caches') = { CACHE_NAME }
      ]_vars

\* after a completed activation a fetch event stored its response and a
\* message event was handled: the only store is the current one, and it
\* holds the response
C20_Witness ==
    /\ actPc = "done"
    /\ skipWaitingCalls = 2
    /\ StoreNames(caches) = { CACHE_NAME }
    /\ \E i \in 1..MaxFetch :
          /\ fe[i].write = "stored"
          /\ fe[i].net \in { StoreEntries(caches, CACHE_NAME)[k] :
                                 k \in StoreKeys(caches, CACHE_NAME) }

====
